---- MODULE Spec2Model ----
(***************************************************************************)
(* Model of agent_orchestrator.py: a three-task sequential crew            *)
(* (profiler -> market analyst -> strategist), the simulated market-data   *)
(* tool, the two pydantic hand-off schemas and the top-level try/except    *)
(* around career_crew.kickoff().                                           *)
(*                                                                         *)
(* Text is modelled as a tuple of one-character strings so that Python's   *)
(* case-sensitive `in` test is computed, not assumed.  A comma-separated   *)
(* skill list is modelled as the set of its items.  The language model is  *)
(* the environment: the code constrains its answers only through the       *)
(* output_json schemas, so an answer is a nondeterministic choice among    *)
(* schema-shaped candidates (or a raised exception).                       *)
(*                                                                         *)
(* Init is the state on entry to the try block (line 169): the imports     *)
(* and the Agent/Task/Crew constructions of lines 1-166 have completed.    *)
(***************************************************************************)
EXTENDS Integers, Sequences, FiniteSets, TLC

\* The most tool invocations the analyst's model-driven loop makes in a run.
MaxToolCalls == 3

\* Python's None and a present value: a tuple of length 0 or 1.
None == <<>>

Some(x) == <<x>>

---------------------------------------------------------------------------
\* Text constants of the source, as character tuples.

DataAnalystKey ==
  <<"D","a","t","a"," ","A","n","a","l","y","s","t">>

SoftwareEngineerKey ==
  <<"S","o","f","t","w","a","r","e"," ","E","n","g","i","n","e","e","r">>

\* "Junior Data Analyst" (the value the source ships with)
RoleJuniorDataAnalyst ==
  <<"J","u","n","i","o","r"," ","D","a","t","a"," ","A","n","a","l","y","s","t">>

\* "Software Engineer"
RoleSoftwareEngineer ==
  <<"S","o","f","t","w","a","r","e"," ","E","n","g","i","n","e","e","r">>

\* "Software Engineer / Data Analyst": contains both keys, the second branch's first
RoleBoth ==
  <<"S","o","f","t","w","a","r","e"," ","E","n","g","i","n","e","e","r"," ","/"," ",
    "D","a","t","a"," ","A","n","a","l","y","s","t">>

\* "data analyst": the first key in another case
RoleLowerCase ==
  <<"d","a","t","a"," ","a","n","a","l","y","s","t">>

\* "": the empty role
RoleEmpty == <<>>

\* The role texts the tool may be called with.
Roles ==
  {RoleJuniorDataAnalyst, RoleSoftwareEngineer, RoleBoth, RoleLowerCase, RoleEmpty}

\* The values USER_TARGET_ROLE (line 111) is drawn from: one role the tool has
\* data for, one it has none for.
RoleInputs == {RoleJuniorDataAnalyst, RoleLowerCase}

\* The three canned responses of the tool.
DATA_ANALYST_RESPONSE ==
  "Market Data: The primary mandatory skills for a Junior Data Analyst are: Advanced SQL, Tableau Visualization, and Python (Pandas/NumPy). Secondary skills include basic cloud proficiency (AWS/Azure). Typical salary range in major US metro areas is $75,000 - $95,000."

SOFTWARE_ENGINEER_RESPONSE ==
  "Market Data: Mandatory skills for a Mid-Level Software Engineer are: Expertise in Python/GoLang, proficiency in Docker/Kubernetes, and AWS/GCP services. Typical salary range is $120,000 - $160,000."

GENERIC_RESPONSE ==
  "Market Data: No specific data found. General requirements: excellent communication, problem-solving, and continuous learning."

---------------------------------------------------------------------------
\* Python's `sub in s` on str: a left-to-right scan for the first offset at
\* which sub occurs.

RECURSIVE StartsWithAt(_, _, _, _)
StartsWithAt(s, sub, off, k) ==
  IF k > Len(sub) THEN TRUE
  ELSE IF s[off + k] # sub[k] THEN FALSE
  ELSE StartsWithAt(s, sub, off, k + 1)

RECURSIVE ScanFrom(_, _, _)
ScanFrom(s, sub, off) ==
  IF off + Len(sub) > Len(s) THEN FALSE
  ELSE IF StartsWithAt(s, sub, off, 1) THEN TRUE
  ELSE ScanFrom(s, sub, off + 1)

StrIn(sub, s) == ScanFrom(s, sub, 0)

---------------------------------------------------------------------------
\* Variant: the tool has no else branch, so a role it has no data for gets
\* no response (Python's None).
google_search_no_else(target_role) ==
  IF StrIn(DataAnalystKey, target_role) THEN DATA_ANALYST_RESPONSE
  ELSE IF StrIn(SoftwareEngineerKey, target_role) THEN SOFTWARE_ENGINEER_RESPONSE
  ELSE "None"

\* Variant: the two role tests in the opposite order.
google_search_market_data_swapped(target_role) ==
  IF StrIn(SoftwareEngineerKey, target_role) THEN SOFTWARE_ENGINEER_RESPONSE
  ELSE IF StrIn(DataAnalystKey, target_role) THEN DATA_ANALYST_RESPONSE
  ELSE GENERIC_RESPONSE

\* google_search_market_data: three branches, tried in this order.  The print
\* of line 36 is in the action that calls the tool.

google_search_market_data(target_role) ==
  IF StrIn(DataAnalystKey, target_role) THEN DATA_ANALYST_RESPONSE
  ELSE IF StrIn(SoftwareEngineerKey, target_role) THEN SOFTWARE_ENGINEER_RESPONSE
  ELSE GENERIC_RESPONSE

\* The skills each canned response lists (the items of its text).
MarketSkills(response) ==
  IF response = DATA_ANALYST_RESPONSE
    THEN {"Advanced SQL", "Tableau Visualization", "Python (Pandas/NumPy)"}
  ELSE IF response = SOFTWARE_ENGINEER_RESPONSE
    THEN {"Python/GoLang", "Docker/Kubernetes", "AWS/GCP services"}
  ELSE {"excellent communication", "problem-solving", "continuous learning"}

\* The salary range each canned response states.
SalaryRange(response) ==
  IF response = DATA_ANALYST_RESPONSE THEN "$75,000 - $95,000"
  ELSE IF response = SOFTWARE_ENGINEER_RESPONSE THEN "$120,000 - $160,000"
  ELSE "not stated"

---------------------------------------------------------------------------
\* Raw values as they reach a schema: a JSON integer, a JSON string, or absent.

IntValue(n) == [kind |-> "int", int |-> n, str |-> <<>>]

StrValue(s) == [kind |-> "str", int |-> 0, str |-> s]

Missing == [kind |-> "missing", int |-> 0, str |-> <<>>]

Digits == {"0", "1", "2", "3", "4", "5", "6", "7", "8", "9"}

DigitValue(c) ==
  CASE c = "0" -> 0 [] c = "1" -> 1 [] c = "2" -> 2 [] c = "3" -> 3 [] c = "4" -> 4
    [] c = "5" -> 5 [] c = "6" -> 6 [] c = "7" -> 7 [] c = "8" -> 8 [] c = "9" -> 9

\* The text of an integer: an optional sign, then one or more digits.
IsIntLiteral(s) ==
  LET body == IF Len(s) > 0 /\ s[1] \in {"-", "+"} THEN Tail(s) ELSE s
  IN  /\ Len(body) > 0
      /\ \A i \in 1..Len(body) : body[i] \in Digits

RECURSIVE DigitsToInt(_, _)
DigitsToInt(ds, acc) ==
  IF ds = <<>> THEN acc ELSE DigitsToInt(Tail(ds), acc * 10 + DigitValue(Head(ds)))

ParseInt(s) ==
  IF s[1] = "-" THEN 0 - DigitsToInt(Tail(s), 0)
  ELSE IF s[1] = "+" THEN DigitsToInt(Tail(s), 0)
  ELSE DigitsToInt(s, 0)

\* pydantic's validation of an `int` field: an integer is taken as it is, the
\* text of an integer is converted, anything else is rejected.  The field
\* carries no bound (no ge=0).
IntFieldOk(v) ==
  \/ v.kind = "int"
  \/ v.kind = "str" /\ IsIntLiteral(v.str)

IntFieldValue(v) == IF v.kind = "int" THEN v.int ELSE ParseInt(v.str)

\* class UserProfile(BaseModel): three required fields.  `obj` is the JSON
\* object of the profiler's answer.
UserProfileOk(obj) == IntFieldOk(obj.years_of_experience)

UserProfile(obj) ==
  [current_skills      |-> obj.current_skills,
   target_role         |-> obj.target_role,
   years_of_experience |-> IntFieldValue(obj.years_of_experience)]

\* class MarketAnalysis(BaseModel): three required str fields.  `obj.keys` is
\* the set of keys the JSON object of the analyst's answer has.
MarketAnalysisKeys ==
  {"required_skills_found", "critical_skill_gap", "average_salary_range"}

MarketAnalysisOk(obj) == MarketAnalysisKeys \subseteq obj.keys

MarketAnalysis(obj) ==
  [required_skills_found |-> obj.required_skills_found,
   critical_skill_gap    |-> obj.critical_skill_gap,
   average_salary_range  |-> obj.average_salary_range]

---------------------------------------------------------------------------
\* The values USER_CURRENT_SKILLS and USER_EXPERIENCE (lines 110, 112) are
\* drawn from.

SkillInputs ==
  { {"Python", "basic Excel", "strong theoretical statistics", "good communication"},
    {"Advanced SQL", "Tableau Visualization"} }

ExperienceInputs ==
  { IntValue(2), IntValue(0 - 1), StrValue(<<"2">>), StrValue(<<"-", "3">>),
    StrValue(<<"t", "w", "o">>), Missing }

\* The skill lists the analyst's answer may give as critical_skill_gap.
GapUniverse == {"Advanced SQL", "basic Excel"}

\* The texts the strategist's answer may be.
Reports == {"Career Roadmap Report: INVEST", "Career Roadmap Report: HOLD"}

\* Exception classes kickoff may raise; each derives from Exception.
LLMErrors == {"APIError", "RuntimeError"}

\* What the script writes to standard output.
STARTING     == "--- Starting the Autonomous Career Guidance Agent ---"

TOOL_BANNER  == "--- TOOL ACTIVATED: Searching live market data ---"

REPORT_BANNER == "FINAL CAREER ROADMAP REPORT GENERATED:"

API_DIAGNOSTIC == "FATAL ERROR: Gemini API Key Issue."

GENERIC_DIAGNOSTIC == "An unexpected error occurred"

\* Variant: the first two tasks listed in the opposite order.
tasks_misordered == <<"task_analyst", "task_profiler", "task_strategist">>

\* career_crew: tasks in list order, Process.sequential.
tasks == <<"task_profiler", "task_analyst", "task_strategist">>

---------------------------------------------------------------------------
VARIABLES
  USER_CURRENT_SKILLS,  \* line 110
  USER_TARGET_ROLE,     \* line 111
  USER_EXPERIENCE,      \* line 112
  pc,                   \* position of the script: start, kickoff, print, except, end, exited
  idx,                  \* kickoff's position in tasks (the task to run next)
  active,               \* the tasks executing now
  profile,              \* task_profiler's output: None or Some(UserProfile)
  analysis,             \* task_analyst's output: None or Some(MarketAnalysis)
  report,               \* task_strategist's output: None or Some(text)
  toolLog,              \* the tool's calls so far: <<[role, result], ...>>
  final_result,         \* line 173: None until kickoff has returned
  exc,                  \* the exception kickoff raised: None or Some(class)
  stdout,               \* what the script and the tool have printed
  exit_code,            \* None while running, Some(status) once the process has ended
  events                \* history: the tasks' begin / end / raise events, in order

inputs == <<USER_CURRENT_SKILLS, USER_TARGET_ROLE, USER_EXPERIENCE>>

outputs == <<profile, analysis, report>>

vars == <<USER_CURRENT_SKILLS, USER_TARGET_ROLE, USER_EXPERIENCE, pc, idx, active,
          profile, analysis, report, toolLog, final_result, exc, stdout,
          exit_code, events>>

Init ==
  /\ USER_CURRENT_SKILLS \in SkillInputs
  /\ USER_TARGET_ROLE \in RoleInputs
  /\ USER_EXPERIENCE \in ExperienceInputs
  /\ pc = "start"
  /\ idx = 1
  /\ active = {}
  /\ profile = None
  /\ analysis = None
  /\ report = None
  /\ toolLog = <<>>
  /\ final_result = None
  /\ exc = None
  /\ stdout = <<>>
  /\ exit_code = None
  /\ events = <<>>

Event(e, task) == [ev |-> e, task |-> task]

\* Line 170, then the call of kickoff at line 173.
ScriptStart ==
  /\ pc = "start"
  /\ stdout' = Append(stdout, STARTING)
  /\ pc' = "kickoff"
  /\ UNCHANGED <<inputs, idx, active, outputs, toolLog, final_result, exc,
                 exit_code, events>>

\* The sequential process takes the next task of the list once the one before
\* it has returned.
TaskBegin ==
  /\ pc = "kickoff"
  /\ idx <= Len(tasks)
  /\ active = {}
  /\ active' = {tasks[idx]}
  /\ events' = Append(events, Event("begin", tasks[idx]))
  /\ UNCHANGED <<inputs, pc, idx, outputs, toolLog, final_result, exc, stdout,
                 exit_code>>

Running(task) == pc = "kickoff" /\ idx <= Len(tasks) /\ tasks[idx] = task /\ task \in active

\* The running task returns: the loop moves to the next task.
TaskEnd(task) ==
  /\ active' = active \ {task}
  /\ idx' = idx + 1
  /\ events' = Append(events, Event("end", task))
  /\ UNCHANGED <<pc, exc>>

\* The running task raises: the exception leaves kickoff and reaches the
\* except clauses of the script.
TaskRaise(task, e) ==
  /\ active' = active \ {task}
  /\ exc' = Some(e)
  /\ pc' = "except"
  /\ events' = Append(events, Event("raise", task))
  /\ UNCHANGED idx

\* task_profiler: the model's answer is the JSON object of the three inputs
\* interpolated into the description (lines 116-122), validated against
\* UserProfile (output_json).
ProfilerAnswer ==
  [current_skills      |-> USER_CURRENT_SKILLS,
   target_role         |-> USER_TARGET_ROLE,
   years_of_experience |-> USER_EXPERIENCE]

ProfilerFinish ==
  /\ Running("task_profiler")
  /\ IF UserProfileOk(ProfilerAnswer)
       THEN /\ profile' = Some(UserProfile(ProfilerAnswer))
            /\ TaskEnd("task_profiler")
       ELSE /\ TaskRaise("task_profiler", "ValidationError")
            /\ UNCHANGED profile
  /\ UNCHANGED <<inputs, analysis, report, toolLog, final_result, stdout, exit_code>>

\* Variant: the tool call also stores what it found as the stage's output.
AnalystToolCall_writes_output ==
  /\ Running("task_analyst")
  /\ Len(toolLog) < MaxToolCalls
  /\ \E target_role \in Roles :
       LET result == google_search_market_data(target_role)
       IN  /\ toolLog' = Append(toolLog, [role |-> target_role, result |-> result])
           /\ analysis' = Some([required_skills_found |-> MarketSkills(result),
                                critical_skill_gap    |-> {},
                                average_salary_range  |-> SalaryRange(result)])
  /\ stdout' = Append(stdout, TOOL_BANNER)
  /\ UNCHANGED <<inputs, pc, idx, active, profile, report, final_result, exc,
                 exit_code, events>>

\* task_analyst, step 2: the model invokes the tool with a role text of its
\* choosing; the tool prints its banner (line 36) and returns its response.
AnalystToolCall ==
  /\ Running("task_analyst")
  /\ Len(toolLog) < MaxToolCalls
  /\ \E target_role \in Roles :
       toolLog' = Append(toolLog, [role   |-> target_role,
                                   result |-> google_search_market_data(target_role)])
  /\ stdout' = Append(stdout, TOOL_BANNER)
  /\ UNCHANGED <<inputs, pc, idx, active, outputs, final_result, exc, exit_code,
                 events>>

\* The responses the analyst has to work from: the tool's, or none.
Snapshots == {toolLog[i].result : i \in 1..Len(toolLog)}

\* task_analyst, steps 3-5: the JSON objects the model may answer with.  The
\* schema leaves every field free text; a key may be absent.
AnalystAnswers ==
  { [keys                  |-> k,
     required_skills_found |-> MarketSkills(r),
     critical_skill_gap    |-> g,
     average_salary_range  |-> SalaryRange(r)] :
      k \in {MarketAnalysisKeys, MarketAnalysisKeys \ {"critical_skill_gap"}},
      r \in Snapshots \cup {GENERIC_RESPONSE},
      g \in SUBSET GapUniverse }

\* Variant: the analyst, on finishing, also rewrites the profile it was handed
\* (it adds the gap it found to the skills).
AnalystFinish_rewrites_profile ==
  /\ Running("task_analyst")
  /\ profile # None
  /\ \E obj \in AnalystAnswers :
       /\ MarketAnalysisOk(obj)
       /\ analysis' = Some(MarketAnalysis(obj))
       /\ profile' = Some([profile[1] EXCEPT
                             !.current_skills = @ \cup obj.critical_skill_gap])
       /\ TaskEnd("task_analyst")
  /\ UNCHANGED <<inputs, report, toolLog, final_result, stdout, exit_code>>

AnalystFinish ==
  /\ Running("task_analyst")
  /\ \E obj \in AnalystAnswers :
       IF MarketAnalysisOk(obj)
         THEN /\ analysis' = Some(MarketAnalysis(obj))
              /\ TaskEnd("task_analyst")
         ELSE /\ TaskRaise("task_analyst", "ValidationError")
              /\ UNCHANGED analysis
  /\ UNCHANGED <<inputs, profile, report, toolLog, final_result, stdout, exit_code>>

\* task_strategist: free text, no schema.
StrategistFinish ==
  /\ Running("task_strategist")
  /\ \E text \in Reports : report' = Some(text)
  /\ TaskEnd("task_strategist")
  /\ UNCHANGED <<inputs, profile, analysis, toolLog, final_result, stdout, exit_code>>

\* Variant: a failed call is answered by running the task again.
LLMFail_retry ==
  /\ pc = "kickoff"
  /\ Len(events) < 2 * Len(tasks)
  /\ \E task \in active :
       events' = events \o <<Event("raise", task), Event("begin", task)>>
  /\ UNCHANGED <<inputs, pc, idx, active, outputs, toolLog, final_result, exc,
                 stdout, exit_code>>

\* A call of the language model fails inside the running task.
LLMFail ==
  /\ pc = "kickoff"
  /\ \E task \in active, e \in LLMErrors : TaskRaise(task, e)
  /\ UNCHANGED <<inputs, outputs, toolLog, final_result, stdout, exit_code>>

\* kickoff returns the output of the last task; line 173 assigns it.
KickoffReturn ==
  /\ pc = "kickoff"
  /\ idx > Len(tasks)
  /\ active = {}
  /\ final_result' = report
  /\ pc' = "print"
  /\ UNCHANGED <<inputs, idx, active, outputs, toolLog, exc, stdout, exit_code, events>>

\* Lines 175-179.
PrintReport ==
  /\ pc = "print"
  /\ stdout' = stdout \o <<REPORT_BANNER, final_result[1]>>
  /\ pc' = "end"
  /\ UNCHANGED <<inputs, idx, active, outputs, toolLog, final_result, exc,
                 exit_code, events>>

\* Lines 181-186: except APIError.
ExceptAPIError ==
  /\ pc = "except"
  /\ exc = Some("APIError")
  /\ stdout' = Append(stdout, API_DIAGNOSTIC)
  /\ pc' = "end"
  /\ UNCHANGED <<inputs, idx, active, outputs, toolLog, final_result, exc,
                 exit_code, events>>

\* Variant: the except Exception clause placed first, so it takes every
\* exception.
ExceptException_first ==
  /\ pc = "except"
  /\ stdout' = Append(stdout, GENERIC_DIAGNOSTIC)
  /\ pc' = "end"
  /\ UNCHANGED <<inputs, idx, active, outputs, toolLog, final_result, exc,
                 exit_code, events>>

\* Lines 187-188: except Exception, reached when the clause before did not match.
ExceptException ==
  /\ pc = "except"
  /\ exc # Some("APIError")
  /\ stdout' = Append(stdout, GENERIC_DIAGNOSTIC)
  /\ pc' = "end"
  /\ UNCHANGED <<inputs, idx, active, outputs, toolLog, final_result, exc,
                 exit_code, events>>

\* The script has no statement after line 188 and never calls sys.exit: the
\* interpreter ends with status 0 on both paths.
ScriptExit ==
  /\ pc = "end"
  /\ exit_code' = Some(0)
  /\ pc' = "exited"
  /\ UNCHANGED <<inputs, idx, active, outputs, toolLog, final_result, exc,
                 stdout, events>>

Next ==
  \/ ScriptStart
  \/ TaskBegin
  \/ ProfilerFinish
  \/ AnalystToolCall
  \/ AnalystFinish
  \/ StrategistFinish
  \/ LLMFail
  \/ KickoffReturn
  \/ PrintReport
  \/ ExceptAPIError
  \/ ExceptException
  \/ ScriptExit

Spec == Init /\ [][Next]_vars

\* The script is one thread that runs to completion: a step that can be taken
\* is taken (each call of the model returns or raises).
FairSpec == Spec /\ WF_vars(Next)

---------------------------------------------------------------------------
\* Vocabulary of the properties.

Printed(line) == \E i \in 1..Len(stdout) : stdout[i] = line

TimesPrinted(line) == Cardinality({i \in 1..Len(stdout) : stdout[i] = line})

Diagnostics == {API_DIAGNOSTIC, GENERIC_DIAGNOSTIC}

Begun(task) == \E i \in 1..Len(events) : events[i] = Event("begin", task)

Ended(task) == \E i \in 1..Len(events) : events[i] = Event("end", task)

Failed == \E i \in 1..Len(events) : events[i].ev = "raise"

\* sub occurs in s at some offset (the definition of a substring).
Occurs(sub, s) ==
  \E i \in 1..(Len(s) - Len(sub) + 1) : SubSeq(s, i, i + Len(sub) - 1) = sub

NoSpecificData(role) ==
  ~Occurs(DataAnalystKey, role) /\ ~Occurs(SoftwareEngineerKey, role)

GenericRequirements ==
  {"excellent communication", "problem-solving", "continuous learning"}

\* The order the stages are to run in.
StageOrder == <<"task_profiler", "task_analyst", "task_strategist">>

---------------------------------------------------------------------------
\* C1: the stages run strictly in the order profiler -> analyst -> strategist:
\* the events of a run are begin/finish pairs of the stages in that order, so no
\* stage begins twice or before the stage before it has finished; at most one
\* stage is active; and an active stage has the output of the stage before it.
C1_StrictStageOrder ==
  /\ Cardinality(active) <= 1
  /\ \A i \in 1..Len(events) :
       /\ events[i].task = StageOrder[(i + 1) \div 2]
       /\ (i % 2 = 1) <=> (events[i].ev = "begin")
       /\ (i > 1 /\ events[i].ev = "begin") => events[i - 1].ev = "end"
  /\ Len(events) <= 2 * Len(StageOrder)
  /\ ("task_analyst" \in active) => profile # None
  /\ ("task_strategist" \in active) => analysis # None
  /\ (active # {}) <=> (Len(events) % 2 = 1)

\* A run in which all three stages have begun and ended.
C1_Witness ==
  /\ pc = "exited"
  /\ Ended("task_profiler") /\ Ended("task_analyst") /\ Ended("task_strategist")

\* C2 (as stated): a run in which validation failed has printed a diagnostic
\* and ended with a non-zero exit status.
C2_FailureExitsNonZero ==
  (pc = "exited" /\ exc = Some("ValidationError")) =>
    /\ \E d \in Diagnostics : Printed(d)
    /\ exit_code # Some(0)

NegativeOrNonNumeric(v) ==
  \/ v.kind = "missing"
  \/ v.kind = "int" /\ v.int < 0
  \/ v.kind = "str" /\ ~IsIntLiteral(v.str)
  \/ v.kind = "str" /\ IsIntLiteral(v.str) /\ ParseInt(v.str) < 0

\* C4 (as stated): with negative or non-numeric years no UserProfile is
\* produced, the analyst never begins, and the profiler's validation ends the
\* run with a ValidationError.
C4_BadYearsRejected ==
  NegativeOrNonNumeric(USER_EXPERIENCE) =>
    /\ profile = None
    /\ ~Begun("task_analyst")
    /\ ~Ended("task_profiler")

C6_GapWithinMissingSkills ==
  ( /\ analysis # None
    /\ profile # None
    /\ toolLog # <<>>
    /\ \A i \in 1..Len(toolLog) : toolLog[i].role = profile[1].target_role ) =>
    \E i \in 1..Len(toolLog) :
      analysis[1].critical_skill_gap \subseteq
        (MarketSkills(toolLog[i].result) \ profile[1].current_skills)

C9_BranchSelection ==
  \A i \in 1..Len(toolLog) :
    LET role == toolLog[i].role
        result == toolLog[i].result
    IN  /\ result \in {DATA_ANALYST_RESPONSE, SOFTWARE_ENGINEER_RESPONSE,
                       GENERIC_RESPONSE}
        /\ Occurs(DataAnalystKey, role) <=> (result = DATA_ANALYST_RESPONSE)
        /\ (~Occurs(DataAnalystKey, role) /\ Occurs(SoftwareEngineerKey, role))
             <=> (result = SOFTWARE_ENGINEER_RESPONSE)
        /\ NoSpecificData(role) <=> (result = GENERIC_RESPONSE)
        /\ (role = RoleBoth) => (result = DATA_ANALYST_RESPONSE)
        /\ (role = RoleSoftwareEngineer) => (result = SOFTWARE_ENGINEER_RESPONSE)
        /\ (role \in {RoleEmpty, RoleLowerCase}) => (result = GENERIC_RESPONSE)

\* The lookup was called with the two-key role, the empty role and the
\* lower-case role.
C9_Witness ==
  /\ \E i \in 1..Len(toolLog) : toolLog[i].role = RoleBoth
  /\ \E i \in 1..Len(toolLog) : toolLog[i].role = RoleEmpty
  /\ \E i \in 1..Len(toolLog) : toolLog[i].role = RoleLowerCase

\* The report block: the banner and, right after it, kickoff's result.
ReportBlockPrinted ==
  /\ final_result # None
  /\ \E i \in 1..(Len(stdout) - 1) :
       stdout[i] = REPORT_BANNER /\ stdout[i + 1] = final_result[1]

DiagnosticsPrinted == TimesPrinted(API_DIAGNOSTIC) + TimesPrinted(GENERIC_DIAGNOSTIC)

\* The outcomes of C10: a run that has passed the try statement is in exactly one of two
\* outcomes: kickoff returned and the report block, and no diagnostic, was
\* printed; or kickoff raised and exactly one diagnostic (the API-key one for
\* APIError, the generic one otherwise), and no report block, was printed.  An
\* exception from kickoff always has a clause that takes it, and at no point
\* has the script printed both the report banner and a diagnostic.
C10_ExactlyOneOutcome ==
  /\ (pc \in {"end", "exited"}) =>
       \/ /\ exc = None
          /\ ReportBlockPrinted
          /\ TimesPrinted(REPORT_BANNER) = 1
          /\ DiagnosticsPrinted = 0
       \/ /\ exc # None
          /\ final_result = None
          /\ ~Printed(REPORT_BANNER)
          /\ DiagnosticsPrinted = 1
          /\ (exc = Some("APIError")) <=> Printed(API_DIAGNOSTIC)
  /\ (pc = "except") => (exc # None /\ ENABLED (ExceptAPIError \/ ExceptException))
  /\ ~(Printed(REPORT_BANNER) /\ DiagnosticsPrinted > 0)
  /\ (pc \notin {"end", "exited"}) => (DiagnosticsPrinted = 0 /\ ~Printed(REPORT_BANNER))

====
